---- MODULE Spec2Model ----
(***************************************************************************)
(* Model of Idea.py: the SentryHandler of the idea pipeline.  An observer  *)
(* thread delivers Created/Modified events to on_created / on_modified,    *)
(* start_stability_check admits a path into files_being_checked and starts *)
(* one thread running check_and_process_thread, which polls the file size  *)
(* until it is stable and then transcribes, formats, saves, notifies and   *)
(* cleans up.                                                              *)
(***************************************************************************)
EXTENDS Integers, Sequences, FiniteSets, TLC

\* ------------------------------------------------------------------ bounds

\* Thread slots: how many check_and_process_thread threads may be alive at once.
MaxWorkers == 2

\* How many polls a run of the stability loop on its own is followed for.
MaxPolls == 6

\* ------------------------------------------------------- program constants

\* max_stable_count = 3 (line 137)
max_stable_count == 3

\* last_size = -1 (line 135)
InitialLastSize == -1

\* the suffixes of line 124
AudioExts == {".mp3", ".m4a", ".wav", ".ogg", ".aac"}

\* ------------------------------------------------------------ the universe

\* A path of the watch folder, split as os.path.splitext splits it.
MemoWav == [stem |-> "memo", ext |-> ".wav"]
MemoTxt == [stem |-> "memo", ext |-> ".txt"]

\* The audio files that arrive in the watch folder.
AudioPaths == {MemoWav}

\* Every path an event may name.
Paths == AudioPaths \cup {MemoTxt}

\* A second recording with the same base name and another audio suffix.
MemoMp3 == [stem |-> "memo", ext |-> ".mp3"]

\* Two audio files of the watch folder that differ in their suffix only.
SameStemPaths == {MemoWav, MemoMp3}

\* Every file the watch folder may hold.
FolderPaths == Paths \cup SameStemPaths

\* The sizes os.path.getsize may return in a thread: a placeholder and a
\* non-empty size.
Sizes == {0, 512}

\* The sizes a run of the stability loop on its own is fed.
PolledSizes == {0, 512, 1024}

\* The observer thread of line 229: the only caller of the handler's callbacks.
Observers == {1}

\* Two threads calling the handler's callbacks at once.
ConcurrentCallers == {1, 2}

Callers == Observers \cup ConcurrentCallers

WorkerIds == 1..MaxWorkers

\* A file that is not there, Python's None, and the content of an audio file.
Absent == "<absent>"
None == "<None>"
Audio == "<audio>"

\* What Whisper hears in an audio file.
Speech(p) == IF p.ext = ".wav" THEN "buy milk" ELSE "call mom"

\* The texts Whisper may write for p: nothing recognised, or the speech.
WhisperTexts(p) == {"", Speech(p)}

\* No note saved under a name of the output folder.
NoNote == [kind |-> "absent", text |-> ""]

VARIABLES
    files_being_checked,  \* SentryHandler.files_being_checked (line 99)
    caller,               \* each callback thread: where it is in start_stability_check
    worker,               \* each thread slot: the locals of check_and_process_thread
    watch,                \* WATCH_FOLDER: path -> content, or Absent
    outdir,               \* FINAL_OUTPUT_FOLDER: stem -> the note saved as <stem>.txt
    arrival,              \* per audio path, since its file last arrived: admissions and Transcribe starts
    ignored,              \* the latest event that admitted nothing since a thread was last started, and why
    ended,                \* the thread that ended last, since a thread was last started
    detector              \* the stability loop run on its own: its locals and the sizes it was fed

vars == <<files_being_checked, caller, worker, watch, outdir, arrival, ignored, ended,
          detector>>

\* ----------------------------------------------------------------- helpers

\* os.path.splitext(p)[0] + ".txt" (lines 68 and 184)
TxtOf(p) == [stem |-> p.stem, ext |-> ".txt"]

\* file_path.endswith(('.mp3', '.m4a', '.wav', '.ogg', '.aac')) (line 124)
IsAudio(p) == p.ext \in AudioExts

\* `if raw_text:` (line 179): None and the empty string are falsy
Truthy(t) == t # None /\ t # ""

\* A counter that stops at 2: none, one, several.
Bump(n) == IF n < 2 THEN n + 1 ELSE 2

IdleWorker ==
    [pc |-> "idle", file_path |-> MemoWav, last_size |-> InitialLastSize,
     stable_count |-> 0, raw_text |-> None, formatted_note |-> NoNote,
     ran |-> <<>>, notify_result |-> "pending", cleanup_result |-> "pending",
     outcome |-> "none", retries |-> 0, zero_reads |-> 0]

IdleCaller == [pc |-> "idle", path |-> MemoWav]

NothingIgnored == [path |-> MemoWav, why |-> "none"]

NothingEnded ==
    [file_path |-> MemoWav, ran |-> <<>>, stable_count |-> 0, outcome |-> "none",
     raw_text |-> None, formatted_note |-> NoNote,
     notify_result |-> "pending", cleanup_result |-> "pending"]

\* The stage named `stage` has started in thread record me.
Started(me, stage) == [me EXCEPT !.ran = Append(@, stage)]

\* The record of a thread that ends in state me: what it ran, how it ended,
\* where its counter stood and what its stages gave.
Ended(me, how) ==
    [file_path |-> me.file_path, ran |-> me.ran,
     stable_count |-> me.stable_count, outcome |-> how,
     raw_text |-> me.raw_text, formatted_note |-> me.formatted_note,
     notify_result |-> me.notify_result, cleanup_result |-> me.cleanup_result]

Live(w) == worker[w].pc # "idle"

FreeSlots == {w \in WorkerIds : ~Live(w)}

\* The slot a new thread takes: the lowest free one.
NextSlot == CHOOSE w \in FreeSlots : \A v \in FreeSlots : w <= v

Init ==
    /\ files_being_checked = {}
    /\ caller = [c \in Callers |-> IdleCaller]
    /\ worker = [w \in WorkerIds |-> IdleWorker]
    /\ watch = [p \in FolderPaths |-> Absent]
    /\ outdir = [s \in {p.stem : p \in FolderPaths} |-> NoNote]
    /\ arrival = [p \in {q \in FolderPaths : IsAudio(q)} |->
                       [admitted |-> 0, transcribed |-> 0]]
    /\ ignored = NothingIgnored
    /\ ended = NothingEnded
    /\ detector = [last_size |-> InitialLastSize, stable_count |-> 0, polled |-> <<>>]

\* ------------------------------------------------------- the environment

\* Syncthing (or the user) puts an audio file into the watch folder.
Arrive(p) ==
    /\ watch[p] = Absent
    /\ watch' = [watch EXCEPT ![p] = Audio]
    /\ arrival' = [arrival EXCEPT ![p] = [admitted |-> 0, transcribed |-> 0]]
    /\ UNCHANGED <<files_being_checked, caller, worker, outdir, ignored, ended, detector>>

\* The file is moved away or deleted by someone else.
Vanish(p) ==
    /\ watch[p] # Absent
    /\ watch' = [watch EXCEPT ![p] = Absent]
    /\ UNCHANGED <<files_being_checked, caller, worker, outdir, arrival, ignored, ended, detector>>

\* ------------------------------------------- the callbacks (lines 101-129)

\* Line 124 without its membership test.
Admissible_NoMembership(p) == IsAudio(p)

\* Line 124 without its suffix test.
Admissible_NoSuffix(p) == p \notin files_being_checked

\* The membership and suffix test of line 124, `not in` first.
Admissible(p) == p \notin files_being_checked /\ IsAudio(p)

\* start_stability_check up to the test of line 124: the caller goes on to
\* line 125 or returns.
start_stability_check(c, p) ==
    /\ IF Admissible(p)
       THEN /\ caller' = [caller EXCEPT ![c] = [pc |-> "add", path |-> p]]
            /\ UNCHANGED ignored
       ELSE /\ ignored' = [path |-> p,
                           why |-> IF p \in files_being_checked THEN "duplicate"
                                                                 ELSE "not_audio"]
            /\ UNCHANGED caller
    /\ UNCHANGED <<files_being_checked, worker, watch, outdir, arrival, ended, detector>>

\* A callback's `if event.is_directory: return` (lines 105 and 113).
IgnoreDirectory(c, p) ==
    /\ ignored' = [path |-> p, why |-> "directory"]
    /\ UNCHANGED <<files_being_checked, caller, worker, watch, outdir, arrival, ended, detector>>

on_created(c) ==
    /\ caller[c].pc = "idle"
    /\ \E p \in Paths, is_directory \in BOOLEAN :
           IF is_directory THEN IgnoreDirectory(c, p) ELSE start_stability_check(c, p)

on_modified(c) ==
    /\ caller[c].pc = "idle"
    /\ \E p \in Paths, is_directory \in BOOLEAN :
           IF is_directory THEN IgnoreDirectory(c, p) ELSE start_stability_check(c, p)

\* The locals of a thread that has just started (lines 135-137).
StartedWorker(p) ==
    [IdleWorker EXCEPT !.pc = "poll", !.file_path = p]

\* Lines 125-129 without line 125: the thread is started for a path that was
\* never added.
AdmitAndSpawn_NoAdd(c) ==
    /\ caller[c].pc = "add"
    /\ FreeSlots # {}
    /\ worker' = [worker EXCEPT ![NextSlot] = StartedWorker(caller[c].path)]
    /\ arrival' = [arrival EXCEPT ![caller[c].path].admitted = Bump(@)]
    /\ caller' = [caller EXCEPT ![c] = IdleCaller]
    /\ ended' = NothingEnded
    /\ ignored' = NothingIgnored
    /\ UNCHANGED <<files_being_checked, watch, outdir, detector>>

\* Lines 125-129: add the path and start its thread.
AdmitAndSpawn(c) ==
    /\ caller[c].pc = "add"
    /\ FreeSlots # {}
    /\ LET p == caller[c].path IN
        /\ files_being_checked' = files_being_checked \cup {p}
        /\ worker' = [worker EXCEPT ![NextSlot] = StartedWorker(p)]
        /\ arrival' = [arrival EXCEPT ![p].admitted = Bump(@)]
    /\ caller' = [caller EXCEPT ![c] = IdleCaller]
    /\ ended' = NothingEnded
    /\ ignored' = NothingIgnored
    /\ UNCHANGED <<watch, outdir, detector>>

\* ------------------------------ check_and_process_thread (lines 131-212)

\* Lines 157-168 with line 157 comparing against the last size only.
StabilityStep_CountsZero(last, count, s) ==
    [last_size |-> s,
     stable_count |-> IF s = last THEN count + 1 ELSE 0]

\* Lines 157-168 with the counter starting over at 1: the read that differs
\* is counted as the first stable one.
StabilityStep_CountsFirst(last, count, s) ==
    [last_size |-> s,
     stable_count |-> IF s = last /\ s > 0 THEN count + 1
                      ELSE IF s > 0 THEN 1 ELSE 0]

\* Lines 157-168 with line 158 lost: a repeated size is never counted.
StabilityStep_NeverCounts(last, count, s) ==
    [last_size |-> s, stable_count |-> 0]

\* Lines 157-168: the counter and the last size after a poll that read size s.
StabilityStep(last, count, s) ==
    [last_size |-> s,
     stable_count |-> IF s = last /\ s > 0 THEN count + 1 ELSE 0]

\* `while stable_count < max_stable_count` (line 140)
KeepsPolling(count) == count < max_stable_count

\* Lines 143-146 without line 145: return and leave the path in the set.
Disappeared_NoRelease(w) ==
    /\ watch[worker[w].file_path] = Absent
    /\ ended' = Ended(worker[w], "Disappeared")
    /\ worker' = [worker EXCEPT ![w] = IdleWorker]
    /\ UNCHANGED files_being_checked

\* Lines 143-146: the file is gone; release the path and return.  set.remove
\* raises KeyError on a path that is not in the set, which ends the thread.
Disappeared(w) ==
    LET p == worker[w].file_path IN
    /\ watch[p] = Absent
    /\ IF p \in files_being_checked
       THEN /\ files_being_checked' = files_being_checked \ {p}
            /\ ended' = Ended(Started(worker[w], "Release"), "Disappeared")
       ELSE /\ ended' = Ended(worker[w], "KeyError")
            /\ UNCHANGED files_being_checked
    /\ worker' = [worker EXCEPT ![w] = IdleWorker]

\* Lines 150-154 with the counter reset as for a changed size.
Locked_Resets(w) ==
    /\ watch[worker[w].file_path] # Absent
    /\ worker' = [worker EXCEPT ![w] = [@ EXCEPT !.retries = Bump(@), !.stable_count = 0]]
    /\ UNCHANGED <<files_being_checked, ended>>

\* Lines 150-154: os.path.getsize raised OSError; sleep and poll again.
Locked(w) ==
    /\ watch[worker[w].file_path] # Absent
    /\ worker' = [worker EXCEPT ![w] = [@ EXCEPT !.retries = Bump(@)]]
    /\ UNCHANGED <<files_being_checked, ended>>

\* Lines 149 and 156-169: a size was read; count it and test the loop condition.
SizeRead(w, s) ==
    LET me == worker[w]
        st == StabilityStep(me.last_size, me.stable_count, s)
    IN
    /\ watch[me.file_path] # Absent
    /\ worker' = [worker EXCEPT ![w] =
            [@ EXCEPT !.last_size = st.last_size,
                      !.stable_count = st.stable_count,
                      !.retries = 0,
                      !.zero_reads = IF s = 0 THEN Bump(@) ELSE 0,
                      !.pc = IF KeepsPolling(st.stable_count) THEN "poll"
                                                                ELSE "transcribe"]]
    /\ UNCHANGED <<files_being_checked, ended>>

\* One pass of the loop of lines 140-169.
Poll(w) ==
    /\ worker[w].pc = "poll"
    /\ \/ Disappeared(w)
       \/ Locked(w)
       \/ \E s \in Sizes : SizeRead(w, s)
    /\ UNCHANGED <<caller, watch, outdir, arrival, ignored, detector>>

\* An exception that leaves the try block of lines 173-205: line 207 catches
\* it and the finally block of line 209 follows.
Raised(me) == [me EXCEPT !.pc = "finally", !.outcome = "Error"]

\* Line 177 into transcribe_audio, lines 66-74: run Whisper.exe on the file.
\* It exits non-zero (CalledProcessError, return None at line 90), or exits
\* zero having written <stem>.txt or not, or the run itself raises.
Transcribe(w) ==
    LET me == Started(worker[w], "Transcribe")
        p == me.file_path
    IN
    /\ worker[w].pc = "transcribe"
    /\ arrival' = [arrival EXCEPT ![p].transcribed = Bump(@)]
    /\ \/ /\ worker' = [worker EXCEPT ![w] =
                  [me EXCEPT !.pc = "cleanup", !.raw_text = None]]
          /\ UNCHANGED watch
       \/ /\ watch[p] # Absent
          /\ \E t \in WhisperTexts(p) : watch' = [watch EXCEPT ![TxtOf(p)] = t]
          /\ worker' = [worker EXCEPT ![w] = [me EXCEPT !.pc = "read_txt"]]
       \/ /\ worker' = [worker EXCEPT ![w] = [me EXCEPT !.pc = "read_txt"]]
          /\ UNCHANGED watch
       \/ /\ worker' = [worker EXCEPT ![w] = Raised(me)]
          /\ UNCHANGED watch
    /\ UNCHANGED <<files_being_checked, caller, outdir, ignored, ended, detector>>

\* Line 179 as `if raw_text is not None:`.
AfterTranscribe_EmptyIsText(me, text) ==
    [me EXCEPT !.raw_text = text,
               !.pc = IF text # None THEN "format" ELSE "cleanup"]

\* Where line 179, `if raw_text:`, sends the thread.
AfterTranscribe(me, text) ==
    [me EXCEPT !.raw_text = text,
               !.pc = IF Truthy(text) THEN "format" ELSE "cleanup"]

\* transcribe_audio, lines 77-87: read <stem>.txt and remove it, or return
\* None when it is not there; then line 179.
ReadTxt(w) ==
    LET me == worker[w]
        txt == TxtOf(me.file_path)
    IN
    /\ me.pc = "read_txt"
    /\ \/ IF watch[txt] # Absent
          THEN /\ worker' = [worker EXCEPT ![w] = AfterTranscribe(me, watch[txt])]
               /\ watch' = [watch EXCEPT ![txt] = Absent]
          ELSE /\ worker' = [worker EXCEPT ![w] = AfterTranscribe(me, None)]
               /\ UNCHANGED watch
       \/ /\ worker' = [worker EXCEPT ![w] = Raised(me)]
          /\ UNCHANGED watch
    /\ UNCHANGED <<files_being_checked, caller, outdir, arrival, ignored, ended, detector>>

\* format_text, lines 49-56: what Ollama answered for the text.
Formatted(text) == [kind |-> "formatted", text |-> text]

\* Lines 57-60 returning the error message without the raw text.
Unformatted_NoRawText(text) == [kind |-> "fallback", text |-> ""]

\* format_text, lines 57-60: the message returned on a RequestException.
Unformatted(text) == [kind |-> "fallback", text |-> text]

\* Line 181: format_text returns Ollama's answer or the fallback message, or
\* raises something that is no RequestException.
Format(w) ==
    LET me == Started(worker[w], "Format") IN
    /\ worker[w].pc = "format"
    /\ \/ worker' = [worker EXCEPT ![w] =
              [me EXCEPT !.pc = "persist", !.formatted_note = Formatted(me.raw_text)]]
       \/ worker' = [worker EXCEPT ![w] =
              [me EXCEPT !.pc = "persist", !.formatted_note = Unformatted(me.raw_text)]]
       \/ worker' = [worker EXCEPT ![w] = Raised(me)]
    /\ UNCHANGED <<files_being_checked, caller, watch, outdir, arrival, ignored, ended, detector>>

\* Lines 184-188 with the write of line 187 lost: nothing is saved.
Persist_NoWrite(w) ==
    /\ worker[w].pc = "persist"
    /\ worker' = [worker EXCEPT ![w] = [Started(@, "Persist") EXCEPT !.pc = "notify"]]
    /\ UNCHANGED <<files_being_checked, caller, watch, outdir, arrival, ignored, ended, detector>>

\* Lines 184-188: write the note to FINAL_OUTPUT_FOLDER/<stem>.txt; open or
\* write may raise.
Persist(w) ==
    LET me == Started(worker[w], "Persist") IN
    /\ worker[w].pc = "persist"
    /\ \/ /\ outdir' = [outdir EXCEPT ![me.file_path.stem] = me.formatted_note]
          /\ worker' = [worker EXCEPT ![w] = [me EXCEPT !.pc = "notify"]]
       \/ /\ worker' = [worker EXCEPT ![w] = Raised(me)]
          /\ UNCHANGED outdir
    /\ UNCHANGED <<files_being_checked, caller, watch, arrival, ignored, ended, detector>>

\* Lines 191-198 without the try of line 191: a failing post leaves the
\* outer try block.
Notify_FailureEscapes(w) ==
    LET me == Started(worker[w], "Notify") IN
    /\ worker[w].pc = "notify"
    /\ \/ worker' = [worker EXCEPT ![w] = [me EXCEPT !.pc = "cleanup", !.notify_result = "sent"]]
       \/ worker' = [worker EXCEPT ![w] = [Raised(me) EXCEPT !.notify_result = "failed"]]
    /\ UNCHANGED <<files_being_checked, caller, watch, outdir, arrival, ignored, ended, detector>>

\* Lines 191-198: post to ntfy; an exception is caught and printed.
Notify(w) ==
    LET me == Started(worker[w], "Notify") IN
    /\ worker[w].pc = "notify"
    /\ \E r \in {"sent", "failed"} :
           worker' = [worker EXCEPT ![w] = [me EXCEPT !.pc = "cleanup", !.notify_result = r]]
    /\ UNCHANGED <<files_being_checked, caller, watch, outdir, arrival, ignored, ended, detector>>

\* Lines 201-205: os.remove(file_path) removes the file, or raises (the file
\* is gone or locked) and the exception is caught and printed.
Cleanup(w) ==
    LET me == Started(worker[w], "Cleanup")
        p == me.file_path
        after == [me EXCEPT !.pc = "finally",
                            !.outcome = IF Truthy(me.raw_text) THEN "Completed" ELSE "NoText"]
    IN
    /\ worker[w].pc = "cleanup"
    /\ \/ /\ watch[p] # Absent
          /\ watch' = [watch EXCEPT ![p] = Absent]
          /\ worker' = [worker EXCEPT ![w] = [after EXCEPT !.cleanup_result = "removed"]]
       \/ /\ UNCHANGED watch
          /\ worker' = [worker EXCEPT ![w] = [after EXCEPT !.cleanup_result = "failed"]]
    /\ UNCHANGED <<files_being_checked, caller, outdir, arrival, ignored, ended, detector>>

\* The thread ending at line 209 with no finally block.
Finally_NoRelease(w) ==
    /\ worker[w].pc = "finally"
    /\ worker' = [worker EXCEPT ![w] = IdleWorker]
    /\ ended' = Ended(worker[w], worker[w].outcome)
    /\ UNCHANGED <<files_being_checked, caller, watch, outdir, arrival, ignored, detector>>

\* Line 211: `if file_path in self.files_being_checked`.
Finally(w) ==
    LET me == worker[w] IN
    /\ me.pc = "finally"
    /\ IF me.file_path \in files_being_checked
       THEN /\ worker' = [worker EXCEPT ![w] = [me EXCEPT !.pc = "finally_remove"]]
            /\ UNCHANGED ended
       ELSE /\ worker' = [worker EXCEPT ![w] = IdleWorker]
            /\ ended' = Ended(me, me.outcome)
    /\ UNCHANGED <<files_being_checked, caller, watch, outdir, arrival, ignored, detector>>

\* Line 212: remove the path; KeyError when it has gone since line 211.
FinallyRemove(w) ==
    LET me == worker[w]
        p == me.file_path
    IN
    /\ me.pc = "finally_remove"
    /\ IF p \in files_being_checked
       THEN /\ files_being_checked' = files_being_checked \ {p}
            /\ ended' = Ended(Started(me, "Release"), me.outcome)
       ELSE /\ ended' = Ended(me, "KeyError")
            /\ UNCHANGED files_being_checked
    /\ worker' = [worker EXCEPT ![w] = IdleWorker]
    /\ UNCHANGED <<caller, watch, outdir, arrival, ignored, detector>>

\* ------------------------------------------------------ specifications

\* Any step of a thread running check_and_process_thread.
WorkerStep(w) ==
    \/ Poll(w)
    \/ Transcribe(w)
    \/ ReadTxt(w)
    \/ Format(w)
    \/ Persist(w)
    \/ Notify(w)
    \/ Cleanup(w)
    \/ Finally(w)
    \/ FinallyRemove(w)

\* A callback thread's step.
CallerStep(c) ==
    \/ on_created(c)
    \/ on_modified(c)
    \/ AdmitAndSpawn(c)

Environment ==
    \E p \in AudioPaths : Arrive(p) \/ Vanish(p)

\* The program as the main script runs it: one observer thread calls the
\* callbacks, one after the other (lines 228-233).
Next ==
    \/ Environment
    \/ \E c \in Observers : CallerStep(c)
    \/ \E w \in WorkerIds : WorkerStep(w)

Spec == Init /\ [][Next]_vars

\* The handler with two threads calling its callbacks at the same time, on
\* a watch folder that stays empty: every event names a file that is gone by
\* the time its thread polls, so a thread never gets past line 143 and Poll
\* is the only step of check_and_process_thread there is to take.
NextConcurrent ==
    \/ \E c \in ConcurrentCallers : CallerStep(c)
    \/ \E w \in WorkerIds : Poll(w)

SpecConcurrent == Init /\ [][NextConcurrent]_vars

\* The loop of lines 135-169 on its own: each pass is fed one size that
\* os.path.getsize returned, until stable_count reaches max_stable_count.
StabilityPoll ==
    /\ KeepsPolling(detector.stable_count)
    /\ Len(detector.polled) < MaxPolls
    /\ \E s \in PolledSizes :
          LET st == StabilityStep(detector.last_size, detector.stable_count, s) IN
          detector' = [last_size |-> st.last_size,
                       stable_count |-> st.stable_count,
                       polled |-> Append(detector.polled, s)]
    /\ UNCHANGED <<files_being_checked, caller, worker, watch, outdir, arrival,
                   ignored, ended>>

SpecStability == Init /\ [][StabilityPoll]_vars

\* A Created or Modified event for one of the two files of the same base
\* name, delivered by the observer thread (lines 101-116).
SameStemEvent(c) ==
    /\ caller[c].pc = "idle"
    /\ \E p \in SameStemPaths : start_stability_check(c, p)

\* One pass of the loop of lines 140-169 over a file that arrived complete:
\* it is gone, or its size is read and is what it was.
SettledPoll(w) ==
    /\ worker[w].pc = "poll"
    /\ \/ Disappeared(w)
       \/ SizeRead(w, 512)
    /\ UNCHANGED <<caller, watch, outdir, arrival, ignored, detector>>

\* A step of a thread whose file has settled: a pass of the loop that finds
\* the file gone or reads its size unchanged, or a step of the stages.
SettledStep(w) ==
    \/ SettledPoll(w)
    \/ Transcribe(w)
    \/ ReadTxt(w)
    \/ Format(w)
    \/ Persist(w)
    \/ Notify(w)
    \/ Cleanup(w)
    \/ Finally(w)
    \/ FinallyRemove(w)

\* A pass of the loop over a file that has not settled: os.path.getsize
\* raises OSError or returns 0.
UnsettledPoll(w) ==
    /\ worker[w].pc = "poll"
    /\ \/ Locked(w)
       \/ SizeRead(w, 0)
    /\ UNCHANGED <<caller, watch, outdir, arrival, ignored, detector>>

\* The program under fair scheduling of its threads (threading.Thread, line
\* 128): a started thread keeps running, and time.sleep and every
\* collaborator call return or raise, so a thread that could go on for
\* ever with a step over its settled file takes one.  Nothing makes a size
\* read fail or return 0, and nothing makes a file arrive or vanish.
SpecFair ==
    /\ Spec
    /\ \A w \in WorkerIds : WF_vars(SettledStep(w))

\* The step thread w takes is one in which nothing fails: no stage raises,
\* Ollama answers, the post is sent and os.remove removes the file.
NothingFails(w) ==
    /\ worker'[w].outcome # "Error"
    /\ worker'[w].formatted_note.kind # "fallback"
    /\ worker'[w].notify_result # "failed"
    /\ worker'[w].cleanup_result # "failed"

\* The program with memo.wav and memo.mp3 arriving complete in the watch
\* folder and every collaborator working: the observer thread admits each
\* file and their threads run side by side.
NextSameStem ==
    \/ \E p \in SameStemPaths : Arrive(p)
    \/ \E c \in Observers : SameStemEvent(c) \/ AdmitAndSpawn(c)
    \/ \E w \in WorkerIds :
          \/ SettledPoll(w)
          \/ Transcribe(w) /\ NothingFails(w)
          \/ ReadTxt(w) /\ NothingFails(w)
          \/ Format(w) /\ NothingFails(w)
          \/ Persist(w) /\ NothingFails(w)
          \/ Notify(w) /\ NothingFails(w)
          \/ Cleanup(w) /\ NothingFails(w)
          \/ Finally(w)
          \/ FinallyRemove(w)

SpecSameStem == Init /\ [][NextSameStem]_vars

\* ------------------------------------------------------------ the claims

\* x is one of the elements of the sequence s.
Has(s, x) == \E i \in 1..Len(s) : s[i] = x

\* The threads that are running check_and_process_thread for path p.
WorkersOf(p) == {w \in WorkerIds : Live(w) /\ worker[w].file_path = p}

\* The thread is past the loop of lines 140-169.
InPipeline(w) == worker[w].pc \notin {"idle", "poll"}

\* C1: in every reachable state at most one thread is running for a path,
\* however many events are delivered for it while its thread has not
\* released it.
C1_OneWorkerPerPath ==
    \A p \in Paths : Cardinality(WorkersOf(p)) <= 1

\* C1 witness: a thread is running for memo.wav, admitted once since the file
\* arrived, and a later event for memo.wav was turned away as a duplicate.
C1_Witness ==
    /\ WorkersOf(MemoWav) # {}
    /\ arrival[MemoWav].admitted = 1
    /\ ignored = [path |-> MemoWav, why |-> "duplicate"]

\* C2: admission is a test-and-set: a caller that adds a path at line 125 and
\* starts its thread finds the path absent from the set, so of two callers
\* only one admits it.
C2_AdmissionIsTestAndSet ==
    [][\A c \in Callers :
          (caller[c].pc = "add" /\ caller'[c].pc = "idle")
              => caller[c].path \notin files_being_checked]_vars

\* The loop run on its own has left the loop: the file is declared stable.
DeclaredStable == ~KeepsPolling(detector.stable_count)

\* The last n sizes the loop was fed are equal and greater than zero.
RepeatedFor(n) ==
    LET polled == detector.polled IN
    /\ Len(polled) >= n
    /\ polled[Len(polled)] > 0
    /\ \A i \in (Len(polled) - n + 1)..Len(polled) : polled[i] = polled[Len(polled)]

\* C3 as written: the file is declared stable at a poll exactly when the last
\* max_stable_count polled sizes are equal and greater than zero, and sizes
\* 0, 0, 512, 512, 512 make it stable at the fifth poll.
C3_StableAfterThreeReads ==
    /\ DeclaredStable <=> RepeatedFor(max_stable_count)
    /\ detector.polled = <<0, 0, 512, 512, 512>> => DeclaredStable

\* C3 amended: the file is declared stable at a poll exactly when the last
\* max_stable_count + 1 polled sizes are equal and greater than zero (the
\* counter counts the reads that repeat the one before); sizes 0, 0, 512,
\* 512, 512 leave it unstable at the fifth poll and a sixth read of 512
\* makes it stable.
C3_StableAfterThreeRepeats ==
    /\ DeclaredStable <=> RepeatedFor(max_stable_count + 1)
    /\ detector.polled = <<0, 0, 512, 512, 512>> => ~DeclaredStable
    /\ detector.polled = <<0, 0, 512, 512, 512, 512>> => DeclaredStable

\* C3 witness: the loop was fed 0, 0, 512, 512, 512, 512 and has declared
\* the file stable.
C3_Witness ==
    /\ detector.polled = <<0, 0, 512, 512, 512, 512>>
    /\ DeclaredStable

\* C4: a poll that reads size 0 leaves the counter at 0 and the thread in
\* the loop, and a thread that has left the loop for the stages last read a
\* non-zero size: zero reads alone never start the stages.
C4_ZeroNeverStable ==
    \A w \in WorkerIds :
        /\ worker[w].zero_reads > 0
              => worker[w].stable_count = 0 /\ worker[w].pc = "poll"
        /\ InPipeline(w) => worker[w].last_size > 0

\* C4 witness: a thread has read size 0 at least twice in a row and is still
\* polling with its counter at 0.
C4_Witness ==
    \E w \in WorkerIds :
        /\ worker[w].pc = "poll"
        /\ worker[w].zero_reads = 2
        /\ worker[w].last_size = 0
        /\ worker[w].stable_count = 0

\* C5: a thread that reached Stable (its counter at max_stable_count) has
\* executed the removal of the source file by the time it ends, whatever
\* the earlier stages did.
C5_CleanupAlwaysAttempted ==
    (ended.outcome # "none" /\ ended.stable_count = max_stable_count)
        => Has(ended.ran, "Cleanup")

\* C6: when a thread has ended, by whichever exit, its path is not in
\* files_being_checked.
C6_ReleasedOnExit ==
    ended.outcome # "none" => ended.file_path \notin files_being_checked

\* C6 witness: a thread ended after Persist raised, without Cleanup, and its
\* path is out of the set.
C6_Witness ==
    /\ ended.outcome = "Error"
    /\ ended.ran = <<"Transcribe", "Format", "Persist", "Release">>
    /\ ended.file_path \notin files_being_checked

\* C7: a thread that polls while its file is not there ends as Disappeared,
\* whatever its counter: the path is released and no stage has run.
C7_DisappearedEndsRun ==
    [][\A w \in WorkerIds :
          (/\ worker[w].pc = "poll"
           /\ watch[worker[w].file_path] = Absent
           /\ worker'[w] # worker[w])
              => /\ worker'[w].pc = "idle"
                 /\ ended' = [NothingEnded EXCEPT
                                   !.file_path = worker[w].file_path,
                                   !.ran = <<"Release">>,
                                   !.stable_count = worker[w].stable_count,
                                   !.outcome = "Disappeared"]
                 /\ worker[w].file_path \notin files_being_checked']_vars

\* C7 witness: a thread ended as Disappeared with its counter at 2.
C7_Witness ==
    /\ ended.outcome = "Disappeared"
    /\ ended.stable_count = 2
    /\ ended.ran = <<"Release">>

\* C8: when Transcribe returned no text (None or the empty string), Format,
\* Persist and Notify do not run, and the thread ends having run Cleanup and
\* then the release.
C8_NoTextSkipsToCleanup ==
    /\ \A w \in WorkerIds :
          (\/ worker[w].pc = "cleanup" /\ worker[w].raw_text \in {None, ""}
           \/ worker[w].outcome = "NoText")
              => /\ ~Has(worker[w].ran, "Format")
                 /\ ~Has(worker[w].ran, "Persist")
                 /\ ~Has(worker[w].ran, "Notify")
    /\ ended.outcome = "NoText"
          => ended.ran = <<"Transcribe", "Cleanup", "Release">>

\* C8 witness: a thread whose transcription gave no text has ended, having
\* run Transcribe, Cleanup and the release only.
C8_Witness ==
    /\ ended.outcome = "NoText"
    /\ ended.ran = <<"Transcribe", "Cleanup", "Release">>
    /\ ended.file_path \notin files_being_checked

\* C9: a file that arrived once and has been in the watch folder since is
\* admitted once and transcribed once, whatever events are delivered.
C9_OncePerArrival ==
    \A p \in AudioPaths :
        watch[p] # Absent
            => arrival[p].admitted <= 1 /\ arrival[p].transcribed <= 1

\* C10: a poll that fails with OSError changes nothing but the retry count:
\* the counter and the last size stay, the thread stays in the loop, and
\* nothing is released or ended.
C10_LockedKeepsState ==
    [][\A w \in WorkerIds :
          worker'[w].retries > worker[w].retries
              => /\ worker[w].pc = "poll"
                 /\ worker'[w] = [worker[w] EXCEPT !.retries = worker'[w].retries]
                 /\ files_being_checked' = files_being_checked
                 /\ ended' = ended]_vars

\* C10 witness: a thread is still polling after two OSErrors in a row, its
\* counter still at 2.
C10_Witness ==
    \E w \in WorkerIds :
        /\ worker[w].pc = "poll"
        /\ worker[w].retries = 2
        /\ worker[w].stable_count = 2
        /\ worker[w].last_size = 512

\* C11: releasing a path that is not in files_being_checked is a no-op and
\* not an error: neither the release of the Disappeared branch (line 145)
\* nor the release of the finally block (line 212) raises when the path is
\* already out of the set, so no thread ends with a KeyError.
C11_ReleaseOfAbsentIsNoOp ==
    ended.outcome # "KeyError"

\* Every stage of the thread that ended last succeeded: Whisper gave text,
\* Ollama answered, the note was saved, the post was sent and os.remove
\* removed the file.
AllStagesSucceeded ==
    /\ ended.outcome = "Completed"
    /\ ended.formatted_note.kind = "formatted"
    /\ ended.notify_result = "sent"
    /\ ended.cleanup_result = "removed"

\* C12: when a thread that reached Stable has ended with Transcribe, Format,
\* Persist, Notify and Cleanup all successful, the output folder holds the
\* formatted note under <stem>.txt, the source file it processed is no longer
\* in the watch folder (a file found there has arrived since), and its path
\* is not in files_being_checked.
C12_SuccessfulRun ==
    AllStagesSucceeded
        => /\ ended.stable_count = max_stable_count
           /\ outdir[ended.file_path.stem] = Formatted(Speech(ended.file_path))
           /\ \/ watch[ended.file_path] = Absent
              \/ arrival[ended.file_path].admitted = 0
           /\ ended.file_path \notin files_being_checked

\* C12 witness: the thread for memo.wav ended with every stage successful;
\* memo.txt in the output folder holds the formatted "buy milk", memo.wav is
\* gone and released.
C12_Witness ==
    /\ AllStagesSucceeded
    /\ ended.file_path = MemoWav
    /\ ended.ran = <<"Transcribe", "Format", "Persist", "Notify", "Cleanup", "Release">>
    /\ outdir["memo"] = Formatted("buy milk")
    /\ watch[MemoWav] = Absent
    /\ MemoWav \notin files_being_checked

\* C13: when Transcribe gave text and format_text failed (no connection or
\* an error status, the RequestException of line 57), the thread goes on to
\* Persist with a note that contains the raw text; once Persist has
\* returned the output folder holds that note, and Notify and Cleanup run
\* after it as in a run whose formatting succeeded.
C13_FormatFailureKeepsRawText ==
    /\ \A w \in WorkerIds :
          worker[w].formatted_note.kind = "fallback"
              => /\ worker[w].raw_text = Speech(worker[w].file_path)
                 /\ worker[w].formatted_note.text = worker[w].raw_text
                 /\ worker[w].pc \in {"persist", "notify", "cleanup",
                                      "finally", "finally_remove"}
                 /\ (worker[w].pc \in {"notify", "cleanup"} \/ worker[w].outcome = "Completed")
                       => outdir[worker[w].file_path.stem] = worker[w].formatted_note
                 /\ worker[w].outcome = "Completed"
                       => worker[w].ran = <<"Transcribe", "Format", "Persist",
                                            "Notify", "Cleanup">>
    /\ (ended.formatted_note.kind = "fallback" /\ ended.outcome = "Completed")
          => /\ ended.ran = <<"Transcribe", "Format", "Persist", "Notify",
                               "Cleanup", "Release">>
             /\ outdir[ended.file_path.stem].kind = "fallback"
             /\ outdir[ended.file_path.stem].text = Speech(ended.file_path)

\* C13 witness: the thread for memo.wav ended after format_text fell back;
\* memo.txt in the output folder holds the fallback note with "buy milk" in
\* it, and Notify and Cleanup ran.
C13_Witness ==
    /\ ended.outcome = "Completed"
    /\ ended.file_path = MemoWav
    /\ ended.formatted_note.kind = "fallback"
    /\ outdir["memo"] = [kind |-> "fallback", text |-> "buy milk"]
    /\ Has(ended.ran, "Notify")
    /\ Has(ended.ran, "Cleanup")

\* C14: whether the post to ntfy was sent or raised, the rest of the run is
\* the same: the saved note stays in the output folder, Cleanup is the next
\* stage, and the thread ends Completed with its path released.
C14_NotifyFailureChangesNothing ==
    /\ \A w \in WorkerIds :
          worker[w].notify_result \in {"sent", "failed"}
              => /\ worker[w].pc \in {"cleanup", "finally", "finally_remove"}
                 /\ outdir[worker[w].file_path.stem] = worker[w].formatted_note
                 /\ worker[w].pc # "cleanup"
                       => /\ worker[w].outcome = "Completed"
                          /\ worker[w].ran = <<"Transcribe", "Format", "Persist",
                                               "Notify", "Cleanup">>
    /\ ended.notify_result \in {"sent", "failed"}
          => /\ ended.outcome = "Completed"
             /\ ended.ran = <<"Transcribe", "Format", "Persist", "Notify",
                               "Cleanup", "Release">>
             /\ outdir[ended.file_path.stem] = ended.formatted_note
             /\ ended.file_path \notin files_being_checked

\* C14 witness: the thread for memo.wav ended Completed after its post to
\* ntfy raised; the note is in the output folder, Cleanup removed the file
\* and the path is released.
C14_Witness ==
    /\ ended.notify_result = "failed"
    /\ ended.outcome = "Completed"
    /\ ended.cleanup_result = "removed"
    /\ outdir["memo"] = ended.formatted_note
    /\ ended.formatted_note.kind = "formatted"
    /\ MemoWav \notin files_being_checked

\* The stage that started right before the i-th step of ran, "" for the first.
Before(ran, i) == IF i > 1 THEN ran[i - 1] ELSE ""

\* In the thread record r each stage started at most once, Transcribe
\* started with the counter at max_stable_count, and every stage started
\* right after the stage the code puts before it.
StagesInOrder(r) ==
    /\ \A i, j \in 1..Len(r.ran) : r.ran[i] = r.ran[j] => i = j
    /\ \A i \in 1..Len(r.ran) :
          /\ r.ran[i] = "Transcribe"
                => i = 1 /\ r.stable_count = max_stable_count
          /\ r.ran[i] = "Format" => Before(r.ran, i) = "Transcribe"
          /\ r.ran[i] = "Persist" => Before(r.ran, i) = "Format"
          /\ r.ran[i] = "Notify" => Before(r.ran, i) = "Persist"
          /\ r.ran[i] = "Cleanup" => Before(r.ran, i) \in {"Transcribe", "Notify"}

\* In the thread record r of a thread that got past the loop, the release
\* comes right after Cleanup.
ReleaseFollowsCleanup(r) ==
    \A i \in 1..Len(r.ran) :
        (r.ran[i] = "Release" /\ Has(r.ran, "Transcribe"))
            => Before(r.ran, i) = "Cleanup"

\* C15: within one thread the stages are strictly ordered: Transcribe starts
\* only with the counter at max_stable_count, Format only after Transcribe,
\* Persist only after Format, Notify only after Persist, Cleanup only after
\* the stages before it returned or were skipped, the release of the path
\* only after Cleanup, and no stage starts twice.
C15_StagesStrictlyOrdered ==
    /\ \A w \in WorkerIds : StagesInOrder(worker[w])
    /\ StagesInOrder(ended)
    /\ ReleaseFollowsCleanup(ended)

\* C16: threads for different paths share nothing but files_being_checked:
\* with memo.wav and memo.mp3 processed side by side, each thread gets from
\* Transcribe only what Whisper wrote for its own file (or nothing), and the
\* note a thread saved is still in the output folder when it has ended
\* Completed.
C16_RunsDoNotInterfere ==
    /\ \A w \in WorkerIds :
          Live(w) => worker[w].raw_text \in {None, "", Speech(worker[w].file_path)}
    /\ ended.outcome = "Completed"
          => outdir[ended.file_path.stem] = ended.formatted_note

\* C17: only file events for a path with an audio suffix are admitted: after
\* every step files_being_checked holds audio paths only, as do the callers
\* about to add a path and the running threads; and an event that was
\* turned away as a directory or for its suffix (memo.txt, which Whisper
\* writes into the watch folder, among them) leaves files_being_checked,
\* the callers and the threads as they were.
C17_OnlyAudioAdmitted ==
    [][/\ \A p \in files_being_checked' : IsAudio(p)
       /\ \A c \in Callers : caller'[c].pc = "add" => IsAudio(caller'[c].path)
       /\ \A w \in WorkerIds : worker'[w].pc # "idle" => IsAudio(worker'[w].file_path)
       /\ (ignored' # ignored /\ ignored'.why \in {"directory", "not_audio"})
             => /\ files_being_checked' = files_being_checked
                /\ caller' = caller
                /\ worker' = worker]_vars

\* C17 witness: while the thread for memo.wav is between Whisper's write of
\* memo.txt and its own read of it, an event for memo.txt was turned away
\* for its suffix; files_being_checked holds memo.wav only.
C17_Witness ==
    /\ ignored = [path |-> MemoTxt, why |-> "not_audio"]
    /\ watch[MemoTxt] # Absent
    /\ files_being_checked = {MemoWav}
    /\ \E w \in WorkerIds : worker[w].pc = "read_txt"

\* C18: under fair scheduling, unless size reads go on failing or returning
\* 0 for ever, every running thread eventually ends and every path in
\* files_being_checked is eventually removed from it.
C18_EventuallyReleased ==
    \/ []<><<\E w \in WorkerIds : UnsettledPoll(w)>>_vars
    \/ /\ \A w \in WorkerIds : Live(w) ~> ~Live(w)
       /\ \A p \in AudioPaths :
             (p \in files_being_checked) ~> (p \notin files_being_checked)

\* C18 witness: a thread whose reads were 0 twice and then settled at 512
\* has got past the loop, run its stages and ended Completed, its path
\* removed.
C18_Witness ==
    /\ ended.outcome = "Completed"
    /\ ended.stable_count = max_stable_count
    /\ Has(ended.ran, "Release")
    /\ files_being_checked = {}
    /\ \A w \in WorkerIds : ~Live(w)

\* C19: the unguarded removal of line 145 never runs on a path that is not
\* in files_being_checked: in every reachable state the path of a thread
\* that is in the loop of lines 140-169 is in the set, and it is that
\* thread alone that is running for it, so no thread has ended with a
\* KeyError.
C19_DisappearedRemovesMember ==
    /\ \A w \in WorkerIds :
          worker[w].pc = "poll"
              => /\ worker[w].file_path \in files_being_checked
                 /\ WorkersOf(worker[w].file_path) = {w}
    /\ ended.outcome = "Disappeared" => Has(ended.ran, "Release")
    /\ ended.outcome # "KeyError"

\* C19 witness: the thread admitted for memo.wav found the file gone at its
\* first pass of the loop and removed the path at line 145.
C19_Witness ==
    /\ ended.outcome = "Disappeared"
    /\ ended.file_path = MemoWav
    /\ ended.stable_count = 0
    /\ ended.ran = <<"Release">>
    /\ arrival[MemoWav].admitted = 1
    /\ files_being_checked = {}

====
